---- MODULE Spec2Model ----
(***************************************************************************)
(* The MSK plan validator of er-aws-msk.                                   *)
(*                                                                         *)
(* Two entry points carry a class MskPlanValidator:                        *)
(*   "hook"   : src/hooks/post_plan.py  (batched lookups, Version Rule)    *)
(*   "script" : src/validate_plan.py    (per-id lookups, no Version Rule)  *)
(*                                                                         *)
(* The state is the plan handed to the validator, the cloud inventory the  *)
(* AWSApi answers from, the validator's errors list, the outcome of the    *)
(* last validate() call, a log of the rule evaluations of that call, and   *)
(* the outcomes of the calls completed before it.                          *)
(*                                                                         *)
(* Identifiers: subnet ids and security-group ids are 1..N, VPC ids and    *)
(* Kafka versions are strings.  VPC ids are non-empty strings.             *)
(***************************************************************************)
EXTENDS Integers, Sequences, FiniteSets, TLC

VARIABLES entry,      \* which entry point runs: "hook" or "script"
          plan,       \* plan.plan.resource_changes
          subnetInv,  \* EC2 inventory: subnet id -> "absent" | "novpc" | VPC id
          groupInv,   \* EC2 inventory: group id  -> "absent" | "novpc" | VPC id
          versions,   \* the pages list_kafka_versions answers with
          errors,     \* self.errors of the current validator object
          result,     \* "none" | "valid" | "invalid" | "fault" (exception escaped)
          log,        \* rule evaluations of the last validate() call
          done        \* outcomes of the validate() calls completed before it

vars == <<entry, plan, subnetInv, groupInv, versions, errors, result, log, done>>

----------------------------------------------------------------------------
(* Bounds *)

MaxChanges == 2      \* resource changes in a plan
MaxRuns    == 2      \* validate() calls in one behaviour

(* Program constant *)
MIN_SUBNETS == 3

----------------------------------------------------------------------------
(* Value domains *)

SubnetIds == {1, 2, 3}
GroupIds  == {1, 2}
VpcIds    == {"vpc-123", "vpc-456"}
Absent    == "absent"     \* the id is not in the inventory
NoVpc     == "novpc"      \* the record exists and has no "VpcId" key
None      == "None"       \* Python's None

Range(s) == {s[i] : i \in DOMAIN s}

Prefix(n) == [i \in 1..n |-> i]

MSK == "aws_msk_cluster"
Create == "create"

\* A ResourceChange.  hasChange: c.change is not None; hasAfter: c.change.after
\* is a non-empty map.
Change(type, hasChange, actions, hasAfter, ver, subs, sgs) ==
    [type |-> type, hasChange |-> hasChange, actions |-> actions,
     hasAfter |-> hasAfter, kafka_version |-> ver,
     client_subnets |-> subs, security_groups |-> sgs]

SubnetLists == {Prefix(n) : n \in (MIN_SUBNETS - 1)..Cardinality(SubnetIds)}
GroupLists  == {Prefix(Cardinality(GroupIds))}
ProposedVersions == {"2.8.1", "99.99.99"}
\* Pages of KafkaVersion records; a record may lack its "Version" key.
VersionPages == {<< <<[Status |-> "DEPRECATED"]>> >>,
                 << <<[Version |-> "2.8.1", Status |-> "ACTIVE"]>>,
                    <<[Version |-> "3.6.0", Status |-> "ACTIVE"]>> >>}

CreateChanges ==
    {Change(MSK, TRUE, {Create}, TRUE, v, s, g) :
        v \in ProposedVersions, s \in SubnetLists, g \in GroupLists}

\* Changes the validator must leave alone: another resource type, an MSK
\* resource with no change, an MSK change that is not a create, an MSK create
\* with no post-apply map.  Their attributes are chosen to violate every
\* rule, were a rule to run on them.
OtherChanges ==
    {Change("aws_security_group", TRUE, {Create}, TRUE, "99.99.99", Prefix(2), Prefix(2)),
     Change(MSK, FALSE, {}, FALSE, "99.99.99", Prefix(2), Prefix(2)),
     Change(MSK, TRUE, {"update"}, TRUE, "99.99.99", Prefix(2), Prefix(2)),
     Change(MSK, TRUE, {"delete", Create}, FALSE, "99.99.99", Prefix(2), Prefix(2))}

Changes == CreateChanges \cup OtherChanges

Plans == UNION {[1..n -> Changes] : n \in 0..MaxChanges}

----------------------------------------------------------------------------
(* Report entries and log entries *)

Err(kind, ids, ver, avail) ==
    [kind |-> kind, ids |-> ids, version |-> ver, available |-> avail]

ErrSubnetCount        == Err("At least 3 subnets are required", {}, "", << >>)
ErrSubnetsMissing(m)  == Err("Subnet(s) not found", m, "", << >>)
ErrSubnetNoVpc(id)    == Err("VpcId not found for subnet", {id}, "", << >>)
ErrSameVpc            == Err("All subnets must belong to the same VPC", {}, "", << >>)
ErrGroupsMissing(m)   == Err("Security group(s) not found", m, "", << >>)
ErrGroupWrongVpc(id)  == Err("Security group does not belong to the same VPC as the subnets", {id}, "", << >>)
ErrNoVersions         == Err("Could not retrieve available Kafka versions from AWS.", {}, "", << >>)
ErrBadVersion(v, av)  == Err("Invalid Kafka version", {}, v, av)
\* validate_plan.py only
ErrSubnetMissing(id)  == Err("Subnet does not exist", {id}, "", << >>)
ErrGroupNoVpc(id)     == Err("VpcId not found for security group", {id}, "", << >>)

Call(api, ids) == [api |-> api, ids |-> ids]

\* The outcome of one rule evaluation: the entries it appended, what it
\* returned, the inventory calls it made, whether an exception escaped it.
Outcome(errs, ret, calls, fault) ==
    [errs |-> errs, ret |-> ret, calls |-> calls, fault |-> fault]

----------------------------------------------------------------------------
(* AWSApi: the inventory client *)

SubnetRecord(id, inv) ==
    IF inv[id] = NoVpc THEN [SubnetId |-> id]
                       ELSE [SubnetId |-> id, VpcId |-> inv[id]]

GroupRecord(id, inv) ==
    IF inv[id] = NoVpc THEN [GroupId |-> id]
                       ELSE [GroupId |-> id, VpcId |-> inv[id]]

\* ec2_client.describe_subnets(SubnetIds=ids)["Subnets"]: the records that
\* exist among the requested ids, in the inventory's own order; absent ids are
\* omitted.
describe_subnets(ids, inv) ==
    LET found == SelectSeq(Prefix(Cardinality(SubnetIds)),
                           LAMBDA i : i \in Range(ids) /\ inv[i] # Absent)
    IN  [k \in DOMAIN found |-> SubnetRecord(found[k], inv)]

describe_security_groups(ids, inv) ==
    LET found == SelectSeq(Prefix(Cardinality(GroupIds)),
                           LAMBDA i : i \in Range(ids) /\ inv[i] # Absent)
    IN  [k \in DOMAIN found |-> GroupRecord(found[k], inv)]

get_subnets(subnets, inv) == describe_subnets(subnets, inv)

get_security_groups(security_groups, inv) ==
    describe_security_groups(security_groups, inv)

\* The pages are concatenated and the records' "Version" values kept.
get_kafka_versions(pages) ==
    LET cat[i \in 0..Len(pages)] ==
            IF i = 0 THEN << >> ELSE cat[i - 1] \o pages[i]
        versions_data == cat[Len(pages)]
        kept == SelectSeq(versions_data, LAMBDA v : "Version" \in DOMAIN v)
    IN  [k \in DOMAIN kept |-> kept[k].Version]

\* validate_plan.py: one id per call; an empty answer raises.
get_subnet(subnet, inv) ==
    LET data == describe_subnets(<<subnet>>, inv)
    IN  IF data = << >> THEN [raised |-> "SubnetNotFoundError", value |-> << >>]
                        ELSE [raised |-> None, value |-> <<data[1]>>]

\* It raises SubnetNotFoundError for a missing security group too.
get_security_group(sg, inv) ==
    LET data == describe_security_groups(<<sg>>, inv)
    IN  IF data = << >> THEN [raised |-> "SubnetNotFoundError", value |-> << >>]
                        ELSE [raised |-> None, value |-> <<data[1]>>]

----------------------------------------------------------------------------
(* hooks/post_plan.py: the rules.  Each operator is the set of outcomes the  *)
(* rule can have: set.pop() returns an arbitrary element of the set.        *)

\* Mutant: the membership test is made before the emptiness test.
validate_kafka_version_MembershipFirst(kafka_version, vs) ==
    LET available_versions == get_kafka_versions(vs)
        calls == <<Call("get_kafka_versions", << >>)>>
    IN  IF kafka_version \notin Range(available_versions)
        THEN {Outcome(<<ErrBadVersion(kafka_version, available_versions)>>,
                      None, calls, FALSE)}
        ELSE IF available_versions = << >>
        THEN {Outcome(<<ErrNoVersions>>, None, calls, FALSE)}
        ELSE {Outcome(<< >>, None, calls, FALSE)}

validate_kafka_version(kafka_version, vs) ==
    LET available_versions == get_kafka_versions(vs)
        calls == <<Call("get_kafka_versions", << >>)>>
    IN  IF available_versions = << >>
        THEN {Outcome(<<ErrNoVersions>>, None, calls, FALSE)}
        ELSE IF kafka_version \notin Range(available_versions)
        THEN {Outcome(<<ErrBadVersion(kafka_version, available_versions)>>,
                      None, calls, FALSE)}
        ELSE {Outcome(<< >>, None, calls, FALSE)}

\* Mutant: <= for <.
too_few_subnets_OffByOne(subnets) == Len(subnets) <= MIN_SUBNETS

\* len(subnets) < MIN_SUBNETS
too_few_subnets(subnets) == Len(subnets) < MIN_SUBNETS

\* _validate_subnets past the count check: the batched lookup, the missing
\* ids, the records without a VPC id, the same-VPC check, the pop.
resolve_subnets(subnets, inv) ==
    LET data    == get_subnets(subnets, inv)
        calls   == <<Call("get_subnets", subnets)>>
        missing == Range(subnets) \ {data[k].SubnetId : k \in DOMAIN data}
    IN  IF missing # {}
        THEN {Outcome(<<ErrSubnetsMissing(missing)>>, None, calls, FALSE)}
        ELSE
        LET novpc   == SelectSeq(data, LAMBDA s : "VpcId" \notin DOMAIN s)
            errs1   == [k \in DOMAIN novpc |-> ErrSubnetNoVpc(novpc[k].SubnetId)]
            withvpc == SelectSeq(data, LAMBDA s : "VpcId" \in DOMAIN s)
            vpc_ids == {withvpc[k].VpcId : k \in DOMAIN withvpc}
            errs2   == IF Cardinality(vpc_ids) > 1 THEN <<ErrSameVpc>> ELSE << >>
        IN  IF vpc_ids = {}
            THEN \* vpc_ids.pop() on an empty set raises KeyError
                 {Outcome(errs1 \o errs2, None, calls, TRUE)}
            ELSE {Outcome(errs1 \o errs2, v, calls, FALSE) : v \in vpc_ids}

\* Mutant: the count violation is appended and the rule goes on.
validate_subnets_NoReturn(subnets, inv) ==
    {Outcome((IF too_few_subnets(subnets) THEN <<ErrSubnetCount>> ELSE << >>) \o o.errs,
             o.ret, o.calls, o.fault) :
        o \in resolve_subnets(subnets, inv)}

validate_subnets(subnets, inv) ==
    IF too_few_subnets(subnets)
    THEN {Outcome(<<ErrSubnetCount>>, None, << >>, FALSE)}
    ELSE resolve_subnets(subnets, inv)

validate_security_groups(security_groups, vpc_id, inv) ==
    LET data    == get_security_groups(security_groups, inv)
        calls   == <<Call("get_security_groups", security_groups)>>
        missing == Range(security_groups) \ {data[k].GroupId : k \in DOMAIN data}
    IN  IF missing # {}
        THEN {Outcome(<<ErrGroupsMissing(missing)>>, None, calls, FALSE)}
        ELSE
        LET wrong == SelectSeq(data,
                       LAMBDA sg : IF "VpcId" \in DOMAIN sg
                                   THEN sg.VpcId # vpc_id ELSE TRUE)
        IN  {Outcome([k \in DOMAIN wrong |-> ErrGroupWrongVpc(wrong[k].GroupId)],
                     None, calls, FALSE)}

----------------------------------------------------------------------------
(* validate_plan.py: the rules *)

script_validate_subnets(subnets, inv) ==
    IF Len(subnets) < MIN_SUBNETS
    THEN {Outcome(<<ErrSubnetCount>>, None, << >>, FALSE)}
    ELSE
    LET loop[i \in 0..Len(subnets)] ==
            IF i = 0 THEN [errs |-> << >>, vpc_ids |-> {}, calls |-> << >>]
            ELSE LET p     == loop[i - 1]
                     got   == get_subnet(subnets[i], inv)
                     calls == Append(p.calls, Call("get_subnet", <<subnets[i]>>))
                 IN  IF got.raised # None
                     THEN [errs |-> Append(p.errs, ErrSubnetMissing(subnets[i])),
                           vpc_ids |-> p.vpc_ids, calls |-> calls]
                     ELSE IF "VpcId" \notin DOMAIN got.value[1]
                     THEN [errs |-> Append(p.errs, ErrSubnetNoVpc(subnets[i])),
                           vpc_ids |-> p.vpc_ids, calls |-> calls]
                     ELSE [errs |-> p.errs,
                           vpc_ids |-> p.vpc_ids \cup {got.value[1].VpcId},
                           calls |-> calls]
        end   == loop[Len(subnets)]
        errs2 == IF Cardinality(end.vpc_ids) > 1 THEN <<ErrSameVpc>> ELSE << >>
    IN  IF end.vpc_ids = {}
        THEN {Outcome(end.errs \o errs2, None, end.calls, TRUE)}
        ELSE {Outcome(end.errs \o errs2, v, end.calls, FALSE) : v \in end.vpc_ids}

script_validate_security_groups(security_groups, vpc_id, inv) ==
    LET loop[i \in 0..Len(security_groups)] ==
            IF i = 0 THEN Outcome(<< >>, None, << >>, FALSE)
            ELSE LET p == loop[i - 1]
                     sg == security_groups[i]
                     got == get_security_group(sg, inv)
                     calls == Append(p.calls, Call("get_security_group", <<sg>>))
                 IN  IF p.fault THEN p
                     ELSE IF got.raised # None
                     THEN \* SubnetNotFoundError is not SecurityGroupNotFoundError:
                          \* the except clause does not catch it
                          Outcome(p.errs, None, calls, TRUE)
                     ELSE IF "VpcId" \notin DOMAIN got.value[1]
                     THEN Outcome(Append(p.errs, ErrGroupNoVpc(sg)), None, calls, FALSE)
                     ELSE IF got.value[1].VpcId # vpc_id
                     THEN Outcome(Append(p.errs, ErrGroupWrongVpc(sg)), None, calls, FALSE)
                     ELSE Outcome(p.errs, None, calls, FALSE)
    IN  {loop[Len(security_groups)]}

----------------------------------------------------------------------------
(* The orchestrator *)

\* Mutant: the action set is not looked at.
msk_instance_updates_AnyAction(p) ==
    SelectSeq([i \in 1..Len(p) |-> i],
              LAMBDA i : p[i].type = MSK /\ p[i].hasChange)

\* msk_instance_updates: the positions, in plan order, of the changes of type
\* aws_msk_cluster that have a change whose actions contain create.
msk_instance_updates(p) ==
    SelectSeq([i \in 1..Len(p) |-> i],
              LAMBDA i : /\ p[i].type = MSK
                         /\ p[i].hasChange
                         /\ Create \in p[i].actions)

LogEntry(i, rule, ids, arg, o) ==
    [change |-> i, rule |-> rule, ids |-> ids, arg |-> arg, out |-> o]

\* One rule evaluation recorded in the run: its entries are appended to the
\* report, an escaped exception ends the run.
Step(st, i, rule, ids, arg, o) ==
    [errors |-> st.errors \o o.errs,
     log    |-> Append(st.log, LogEntry(i, rule, ids, arg, o)),
     fault  |-> o.fault]

\* The body of validate's loop for one surviving change: the runs that can
\* result from run st.
hook_change(st, i, u, sInv, gInv, pages) ==
    UNION {
      UNION {
        LET s2 == Step(s1, i, "subnets", u.client_subnets, "", so)
        IN  IF so.fault \/ so.ret = None
            THEN {s2}
            ELSE {Step(s2, i, "security_groups", u.security_groups, so.ret, go) :
                    go \in validate_security_groups(u.security_groups, so.ret, gInv)}
        : so \in validate_subnets(u.client_subnets, sInv)}
      : s1 \in {Step(st, i, "version", << >>, u.kafka_version, vo) :
                  vo \in validate_kafka_version(u.kafka_version, pages)}}

script_change(st, i, u, sInv, gInv) ==
    UNION {
        LET s2 == Step(st, i, "subnets", u.client_subnets, "", so)
        IN  IF so.fault \/ so.ret = None
            THEN {s2}
            ELSE {Step(s2, i, "security_groups", u.security_groups, so.ret, go) :
                    go \in script_validate_security_groups(u.security_groups, so.ret, gInv)}
        : so \in script_validate_subnets(u.client_subnets, sInv)}

RECURSIVE validate_loop(_, _, _, _, _, _, _, _)
validate_loop(e, p, updates, k, st, sInv, gInv, pages) ==
    IF k > Len(updates) \/ st.fault
    THEN {st}
    ELSE LET i == updates[k]
             u == p[i]
         IN  IF ~u.hasChange \/ ~u.hasAfter
             THEN validate_loop(e, p, updates, k + 1, st, sInv, gInv, pages)
             ELSE UNION {validate_loop(e, p, updates, k + 1, s, sInv, gInv, pages) :
                           s \in IF e = "hook"
                                 THEN hook_change(st, i, u, sInv, gInv, pages)
                                 ELSE script_change(st, i, u, sInv, gInv)}

\* validate() of entry point e on plan p, called on a validator whose errors
\* list holds errs0: the set of [errors, log, result] it can end with.
validate(e, p, errs0, sInv, gInv, pages) ==
    {[errors |-> s.errors, log |-> s.log,
      result |-> IF s.fault THEN "fault"
                 ELSE IF s.errors = << >> THEN "valid" ELSE "invalid"] :
       s \in validate_loop(e, p, msk_instance_updates(p), 1,
                           [errors |-> errs0, log |-> << >>, fault |-> FALSE],
                           sInv, gInv, pages)}

----------------------------------------------------------------------------
(* The state machine *)

Statuses == {Absent, NoVpc} \cup VpcIds

\* VPC ids are interchangeable names: of the inventories that differ only by
\* renaming the VPCs, the one whose first VPC in subnet order is vpc-123 is
\* taken.
FirstVpcFirst(inv) ==
    \A i \in SubnetIds :
        inv[i] = "vpc-456" => \E j \in SubnetIds : j < i /\ inv[j] = "vpc-123"

Init ==
    /\ entry = "none"
    /\ plan \in Plans
    /\ subnetInv \in {inv \in [SubnetIds -> Statuses] : FirstVpcFirst(inv)}
    /\ groupInv \in [GroupIds -> Statuses]
    /\ versions \in VersionPages
    /\ errors = << >>
    /\ result = "none"
    /\ log = << >>
    /\ done = << >>

\* validate() calls made so far
Runs == IF result = "none" THEN 0 ELSE Len(done) + 1

\* The finished call, filed when the next one starts; next says how it starts:
\* "new" on a new validator, "same" on the same validator object.
Filed(next) ==
    IF result = "none" THEN done
    ELSE Append(done, [errors |-> errors, result |-> result, next |-> next])

\* validate() of entry point e, on a validator whose errors list holds errs0.
Validate(e, errs0) ==
    \E r \in validate(e, plan, errs0, subnetInv, groupInv, versions) :
        /\ entry' = e
        /\ errors' = r.errors
        /\ log' = r.log
        /\ result' = r.result
        /\ UNCHANGED <<plan, subnetInv, groupInv, versions>>

\* hooks/post_plan.py __main__: a validator is constructed (errors = []) and
\* validate() is called.
HookMain ==
    /\ entry \in {"none", "hook"}
    /\ Runs < MaxRuns
    /\ done' = Filed("new")
    /\ Validate("hook", << >>)

\* validate_plan.py __main__
ScriptMain ==
    /\ entry \in {"none", "script"}
    /\ Runs < MaxRuns
    /\ done' = Filed("new")
    /\ Validate("script", << >>)

\* validate() is called again on the validator object of the last call.
ValidateAgain ==
    /\ result \in {"valid", "invalid"}
    /\ Runs < MaxRuns
    /\ done' = Filed("same")
    /\ Validate(entry, errors)

\* One run of hooks/post_plan.py.
Next == result = "none" /\ HookMain

Spec == Init /\ [][Next]_vars

\* One run of either entry point.
NextBoth ==
    \/ result = "none" /\ HookMain
    \/ result = "none" /\ ScriptMain

SpecBoth == Init /\ [][NextBoth]_vars

\* The validation is run up to MaxRuns times against the same plan and
\* inventory.
NextRerun == HookMain \/ ScriptMain \/ ValidateAgain

SpecRerun == Init /\ [][NextRerun]_vars

----------------------------------------------------------------------------
(* What the claims speak about, stated on the plan and the inventory *)

\* A change the rules apply to: type aws_msk_cluster, create among its
\* actions, a post-apply attribute map.
Target(i) ==
    /\ plan[i].type = MSK
    /\ plan[i].hasChange
    /\ Create \in plan[i].actions
    /\ plan[i].hasAfter

Targets == {i \in 1..Len(plan) : Target(i)}

\* The supported-version set of the inventory.
Supported ==
    UNION {{versions[p][k].Version :
              k \in {j \in DOMAIN versions[p] : "Version" \in DOMAIN versions[p][j]}} :
           p \in DOMAIN versions}

SubnetsOf(i) == Range(plan[i].client_subnets)
GroupsOf(i)  == Range(plan[i].security_groups)

EnoughSubnets(i)  == Len(plan[i].client_subnets) >= 3
SubnetsExist(i)   == \A id \in SubnetsOf(i) : subnetInv[id] # Absent
\* The VPC ids carried by the subnets of change i that resolve.
SubnetVpcs(i)     == {subnetInv[id] : id \in SubnetsOf(i)} \cap VpcIds
SubnetsOneVpc(i)  == \E v \in VpcIds :
                        \A id \in SubnetsOf(i) :
                            subnetInv[id] # Absent => subnetInv[id] = v
GroupsExist(i)    == \A id \in GroupsOf(i) : groupInv[id] # Absent
GroupsInVpc(i)    == \E v \in VpcIds :
                        /\ \A id \in SubnetsOf(i) :
                              subnetInv[id] # Absent => subnetInv[id] = v
                        /\ \A id \in GroupsOf(i) :
                              groupInv[id] # Absent => groupInv[id] = v
VersionOk(i)      == Supported # {} /\ plan[i].kafka_version \in Supported

FirstFive(i) ==
    /\ EnoughSubnets(i)
    /\ SubnetsExist(i)
    /\ SubnetsOneVpc(i)
    /\ GroupsExist(i)
    /\ GroupsInVpc(i)

\* The rule evaluations of the last run made for change i, and what they
\* appended to the report.
EntriesOf(i) == SelectSeq(log, LAMBDA e : e.change = i)

Flatten(ss) ==
    LET cat[k \in 0..Len(ss)] == IF k = 0 THEN << >> ELSE cat[k - 1] \o ss[k]
    IN  cat[Len(ss)]

ErrsOf(i) == Flatten([k \in DOMAIN EntriesOf(i) |-> EntriesOf(i)[k].out.errs])
CallsOf(i) == Flatten([k \in DOMAIN EntriesOf(i) |-> EntriesOf(i)[k].out.calls])

Ran(i, rule) == \E k \in DOMAIN log : log[k].change = i /\ log[k].rule = rule

----------------------------------------------------------------------------
(* C1 *)

\* C1, as stated: whenever validate returns valid, every target change
\* satisfies all six invariants against the inventory.
C1_AllSixWhenValid ==
    result = "valid" => \A i \in Targets : FirstFive(i) /\ VersionOk(i)

\* C1 for each entry point: whenever validate returns valid, every target
\* change has at least 3 subnet ids, all present, all resolved subnets in one
\* VPC, all security groups present and in that VPC; with hooks/post_plan.py
\* its kafka_version is in the non-empty supported set as well
\* (validate_plan.py has no Version Rule).
C1_SoundGate ==
    result = "valid" =>
        \A i \in Targets : FirstFive(i) /\ (entry = "hook" => VersionOk(i))

C1_Witness ==
    /\ result = "valid"
    /\ entry = "hook"
    /\ Targets # {}

----------------------------------------------------------------------------
(* C2 *)

\* C2: when every target change has at least 3 subnet ids that all resolve
\* to one VPC, security groups that all resolve to that VPC and a supported
\* version, validate returns valid and the report is empty.
C2_GoodPlanIsValid ==
    (result # "none" /\ \A i \in Targets : FirstFive(i) /\ VersionOk(i))
        => (result = "valid" /\ errors = << >>)

C2_Witness ==
    /\ result = "valid"
    /\ errors = << >>
    /\ Cardinality(Targets) = 2
    /\ \A i \in Targets : FirstFive(i) /\ VersionOk(i)

----------------------------------------------------------------------------
(* C3 *)

\* C3: for a target change with fewer than 3 subnet ids and a supported
\* version, the evaluations made for it append exactly the subnet-count
\* violation, the Subnet Rule returns absent and queries nothing, and no
\* Security-Group Rule runs for it, whatever its security groups are.
C3_ShortSubnetList ==
    \A i \in Targets :
        (Len(plan[i].client_subnets) < 3 /\ (entry = "hook" => VersionOk(i))
            /\ EntriesOf(i) # << >>)
        => /\ ErrsOf(i) = <<ErrSubnetCount>>
           /\ \E k \in DOMAIN log :
                /\ log[k].change = i /\ log[k].rule = "subnets"
                /\ log[k].out.ret = None
                /\ log[k].out.calls = << >>
           /\ ~Ran(i, "security_groups")
           /\ \A c \in Range(CallsOf(i)) : c.api = "get_kafka_versions"

C3_Witness ==
    \E i \in Targets :
        /\ entry = "hook"
        /\ Len(plan[i].client_subnets) < 3
        /\ VersionOk(i)
        /\ ErrsOf(i) = <<ErrSubnetCount>>
        /\ ~GroupsExist(i)
        /\ \A id \in SubnetsOf(i) : subnetInv[id] \in VpcIds

----------------------------------------------------------------------------
(* C4 *)

\* C4: each evaluation of the Version Rule appends: the retrieval-failure
\* violation alone when the supported set is empty, whatever the proposed
\* version; else one violation naming the proposed version and listing all
\* supported versions when it is not in the set; else nothing.
C4_VersionRule ==
    \A k \in DOMAIN log :
        log[k].rule = "version" =>
            LET v    == plan[log[k].change].kafka_version
                errs == log[k].out.errs
            IN  /\ log[k].arg = v
                /\ Len(errs) <= 1
                /\ IF Supported = {}
                   THEN errs = <<ErrNoVersions>>
                   ELSE IF v \notin Supported
                   THEN /\ Len(errs) = 1
                        /\ errs[1].kind = "Invalid Kafka version"
                        /\ errs[1].version = v
                        /\ Range(errs[1].available) = Supported
                   ELSE errs = << >>

C4_Witness ==
    \E k \in DOMAIN log :
        /\ log[k].rule = "version"
        /\ Supported = {}
        /\ log[k].arg = "99.99.99"
        /\ log[k].out.errs = <<ErrNoVersions>>

----------------------------------------------------------------------------
(* C5 *)

PerGroupKinds == {ErrGroupWrongVpc(0).kind, ErrGroupNoVpc(0).kind}

\* C5: each evaluation of the Security-Group Rule ends without a fault and
\* reports everything it can see: the requested ids absent from the inventory
\* as a violation naming them, and, also when ids are missing, a violation of
\* its own for every resolved group whose VPC id is missing or differs from
\* the supplied one, and none for a group whose VPC matches.
C5_GroupRuleReportsAll ==
    \A k \in DOMAIN log :
        log[k].rule = "security_groups" =>
            LET ids     == Range(log[k].ids)
                errs    == Range(log[k].out.errs)
                missing == {id \in ids : groupInv[id] = Absent}
                named   == {id \in ids :
                              \E e \in errs : e.kind \in PerGroupKinds /\ e.ids = {id}}
            IN  /\ ~log[k].out.fault
                /\ missing # {} =>
                     \E e \in errs : e.kind = ErrGroupsMissing({}).kind /\ e.ids = missing
                /\ named = {id \in ids : groupInv[id] \notin {Absent, log[k].arg}}

----------------------------------------------------------------------------
(* C6 *)

\* C6: each evaluation of the Subnet Rule of hooks/post_plan.py on at least 3
\* ids appends exactly one missing-ids violation naming the requested ids
\* that are not in the inventory when there are any and none otherwise, and,
\* also when ids are missing, a violation for each resolved record without a
\* VPC id and the same-VPC violation when the resolved records carry more
\* than one VPC id.
C6_SubnetRuleAccumulates ==
    \A k \in DOMAIN log :
        (entry = "hook" /\ log[k].rule = "subnets" /\ Len(log[k].ids) >= 3) =>
            LET ids     == Range(log[k].ids)
                errs    == log[k].out.errs
                missing == {id \in ids : subnetInv[id] = Absent}
                novpc   == {id \in ids : subnetInv[id] = NoVpc}
                vpcs    == {subnetInv[id] : id \in ids} \cap VpcIds
                about(kind) == SelectSeq(errs, LAMBDA e : e.kind = kind)
            IN  /\ about(ErrSubnetsMissing({}).kind) =
                     IF missing # {} THEN <<ErrSubnetsMissing(missing)>> ELSE << >>
                /\ {e.ids : e \in Range(about(ErrSubnetNoVpc(0).kind))} =
                     {{id} : id \in novpc}
                /\ (Cardinality(vpcs) > 1) <=> (ErrSameVpc \in Range(errs))

----------------------------------------------------------------------------
(* C7 *)

\* The plan without its i-th change.
Without(p, i) ==
    [k \in 1..(Len(p) - 1) |-> IF k < i THEN p[k] ELSE p[k + 1]]

\* C7: no rule is evaluated and no inventory query is made for a change that
\* is not a target; the report and the result are those of the plan without
\* that change; the target changes are processed in plan order.
C7_NonTargetsIgnored ==
    result # "none" =>
        /\ \A k \in DOMAIN log : log[k].change \in Targets
        /\ \A i \in (1..Len(plan)) \ Targets :
              \E r \in validate(entry, Without(plan, i), << >>,
                                subnetInv, groupInv, versions) :
                  r.errors = errors /\ r.result = result
        /\ \A k, l \in DOMAIN log : k < l => log[k].change <= log[l].change

C7_Witness ==
    /\ result = "invalid"
    /\ Len(plan) = 2
    /\ Targets = {2}
    /\ plan[1].type = MSK
    /\ log # << >>
    /\ \A k \in DOMAIN log : log[k].change = 2

----------------------------------------------------------------------------
(* C8 *)

\* C8: a second run against the unchanged plan and inventory, on a new
\* validator or on the same validator object, ends with the report and the
\* result of the first.
C8_SecondRunSame ==
    done # << >> =>
        /\ errors = done[Len(done)].errors
        /\ result = done[Len(done)].result

----------------------------------------------------------------------------
(* C9 *)

\* C9: when the Subnet Rule, on at least 3 ids, collects no VPC id, it
\* returns absent and no exception escapes validate: the Security-Group Rule
\* is skipped for that change, the remaining target changes are processed and
\* the result is invalid.
C9_NoVpcIsAbsent ==
    \A k \in DOMAIN log :
        (/\ log[k].rule = "subnets"
         /\ Len(log[k].ids) >= 3
         /\ {subnetInv[id] : id \in Range(log[k].ids)} \cap VpcIds = {})
        => /\ ~log[k].out.fault
           /\ log[k].out.ret = None
           /\ ~Ran(log[k].change, "security_groups")
           /\ \A j \in Targets : j > log[k].change => Ran(j, "subnets")
           /\ result = "invalid"

----------------------------------------------------------------------------
(* C10 *)

\* C10: each evaluation of the Subnet Rule of hooks/post_plan.py on at least
\* 3 ids whose resolved records carry some VPC id returns one of those ids,
\* also when ids are missing or more than one VPC id is carried, and the
\* Security-Group Rule then runs for that change with the returned id; the
\* rule returns absent only on fewer than 3 ids or when no VPC id is carried.
C10_ReturnsCollectedVpc ==
    \A k \in DOMAIN log :
        (entry = "hook" /\ log[k].rule = "subnets") =>
            LET vpcs == {subnetInv[id] : id \in Range(log[k].ids)} \cap VpcIds
                long == Len(log[k].ids) >= 3
            IN  /\ (long /\ vpcs # {}) =>
                     /\ log[k].out.ret \in vpcs
                     /\ \E l \in DOMAIN log :
                           /\ log[l].change = log[k].change
                           /\ log[l].rule = "security_groups"
                           /\ log[l].arg = log[k].out.ret
                /\ log[k].out.ret = None => (~long \/ vpcs = {})

----------------------------------------------------------------------------
(* C11 *)

\* The target changes in plan order.
TargetSeq == SelectSeq([i \in 1..Len(plan) |-> i], LAMBDA i : Target(i))

RulesOf(i) == [k \in DOMAIN EntriesOf(i) |-> EntriesOf(i)[k].rule]

\* C11: after a run of hooks/post_plan.py every target change has had the
\* Version Rule evaluated first and the Subnet Rule next (and the
\* Security-Group Rule, if at all, last), whatever was appended before; the
\* changes are taken in plan order; and the report is the concatenation, in
\* plan order, of what the rules appended for each change.
C11_NoShortCircuit ==
    result # "none" =>
        /\ \A i \in Targets :
              RulesOf(i) \in {<<"version", "subnets">>,
                              <<"version", "subnets", "security_groups">>}
        /\ \A k, l \in DOMAIN log : k < l => log[k].change <= log[l].change
        /\ errors = Flatten([k \in DOMAIN TargetSeq |-> ErrsOf(TargetSeq[k])])

====
